---- MODULE Spec2Model ----
(***************************************************************************)
(* Model of the package-manager detection resolver (detect / detectSync),  *)
(* its directory walker (lookup), manifest reader (parsePackageJson,       *)
(* handlePackageManager) and specifier parser (processUserAgent).          *)
(*                                                                         *)
(* Strings are modelled as sequences of tokens.  A token is either a       *)
(* single character ("^", "@", "0", "1", "7", "x") or a whole word         *)
(* ("yarn", "pnpm", "npm", "vlt") that stands for its characters; no word  *)
(* begins with a digit or a hexadecimal letter, so the word boundaries     *)
(* never matter to Number.parseInt.                                        *)
(***************************************************************************)
EXTENDS Integers, Sequences, FiniteSets, TLC

\* ---------------------------------------------------------------- bounds
\* longest specifier (in tokens) the parser specification enumerates
MaxLen == 4
\* number of nested directories below the filesystem root
MaxDepth == 3

\* ---------------------------------------------------- values and tables
\* version of a DetectResult: key absent, key present with value undefined,
\* or a string
NoKey == [has |-> "absent", val |-> <<>>]
Undef == [has |-> "undefined", val |-> <<>>]
Str(s) == [has |-> "string", val |-> s]

\* the null result of detect / processUserAgent
Null == [name |-> "null", agent |-> "null", version |-> NoKey]

\* AGENTS of ./constants (the known-agent set)
AGENTS == {"npm", "yarn", "yarn@berry", "pnpm", "pnpm@6", "bun", "deno"}

\* LOCKS of ./constants, in definition order: <<file name, AgentName>>
LOCKS ==
  << <<"bun.lock", "bun">>, <<"bun.lockb", "bun">>, <<"deno.lock", "deno">>,
     <<"pnpm-lock.yaml", "pnpm">>, <<"yarn.lock", "yarn">>,
     <<"package-lock.json", "npm">>, <<"npm-shrinkwrap.json", "npm">> >>

LockNames == {LOCKS[i][1] : i \in 1..Len(LOCKS)}

\* the DetectOptions.onUnknown callbacks considered: none supplied, or a
\* callback that returns null, undefined, or one fixed DetectResult
Callbacks == {"absent", "returnsNull", "returnsUndefined", "returnsResult"}
FixedResult == [name |-> "bun", agent |-> "bun", version |-> Str(<<"custom">>)]

\* onUnknown?.(pm) ?? null
CallUnknown(onUnknown, pm) ==
  IF onUnknown = "returnsResult" THEN FixedResult ELSE Null

\* ------------------------------------------------------ specifier parser
Digits == {"0", "1", "7"}
DigitVal(t) == IF t = "0" THEN 0 ELSE IF t = "1" THEN 1 ELSE 7

\* value of the longest prefix of s made of digits, in the given radix;
\* acc is the value so far, seen tells whether a digit was consumed.
\* The result is {} (NaN) or {n}.
RECURSIVE DigitRun(_, _, _, _)
DigitRun(s, radix, acc, seen) ==
  IF s # <<>> /\ Head(s) \in Digits
    THEN DigitRun(Tail(s), radix, acc * radix + DigitVal(Head(s)), TRUE)
    ELSE IF seen THEN {acc} ELSE {}

\* Number.parseInt(ver) with no radix argument: undefined is not a number;
\* a "0x" prefix selects radix 16; otherwise the leading decimal digits
ParseInt(ver) ==
  IF ver.has # "string" THEN {}
  ELSE LET s == ver.val IN
    IF Len(s) >= 2 /\ s[1] = "0" /\ s[2] = "x"
      THEN DigitRun(SubSeq(s, 3, Len(s)), 16, 0, FALSE)
      ELSE DigitRun(s, 10, 0, FALSE)

\* pm.replace(/^\^/, ''): drops one leading caret
StripCaret(pm) == IF pm # <<>> /\ Head(pm) = "^" THEN Tail(pm) ELSE pm

\* s.split('@') continued: cur is the piece being read
RECURSIVE SplitFrom(_, _)
SplitFrom(s, cur) ==
  IF s = <<>> THEN <<cur>>
  ELSE IF Head(s) = "@" THEN <<cur>> \o SplitFrom(Tail(s), <<>>)
  ELSE SplitFrom(Tail(s), Append(cur, Head(s)))

\* s.split('@'): the pieces between the "@"s (always at least one)
Split(s) == SplitFrom(s, <<>>)

\* the pieces after the first, joined by "@" again
RECURSIVE JoinRest(_, _)
JoinRest(parts, i) ==
  IF i > Len(parts) THEN <<>>
  ELSE IF i = Len(parts) THEN parts[i]
  ELSE parts[i] \o <<"@">> \o JoinRest(parts, i + 1)

\* const [name, ver] = parts: the first two elements, undefined if missing
nameOf(parts) == parts[1]
verOfRest(parts) == IF Len(parts) >= 2 THEN Str(JoinRest(parts, 2)) ELSE Undef
verOf(parts) == IF Len(parts) >= 2 THEN Str(parts[2]) ELSE Undef

Outcome(r, cs) == [result |-> r, calls |-> cs]

\* the if / else-if chain of processUserAgent; pm is what onUnknown gets
agentRules(name, ver, pm, onUnknown) ==
  IF name = <<"yarn">> /\ \E n \in ParseInt(ver) : n > 1
    THEN Outcome([name |-> "yarn", agent |-> "yarn@berry",
                  version |-> Str(<<"berry">>)], <<>>)
  ELSE IF name = <<"pnpm">> /\ \E n \in ParseInt(ver) : n < 7
    THEN Outcome([name |-> "pnpm", agent |-> "pnpm@6", version |-> ver], <<>>)
  ELSE IF Len(name) = 1 /\ name[1] \in AGENTS
    THEN Outcome([name |-> name[1], agent |-> name[1], version |-> ver], <<>>)
  ELSE Outcome(CallUnknown(onUnknown, pm),
               IF onUnknown = "absent" THEN <<>> ELSE <<pm>>)

\* processUserAgent(pm, onUnknown): the result and the arguments with which
\* onUnknown was called
processUserAgentStripped(pm, onUnknown) ==
  IF pm = <<>> THEN Outcome(Null, <<>>)
  ELSE agentRules(nameOf(Split(StripCaret(pm))), verOf(Split(StripCaret(pm))),
                  StripCaret(pm), onUnknown)
processUserAgent(pm, onUnknown) ==
  IF pm = <<>> THEN Outcome(Null, <<>>)
  ELSE agentRules(nameOf(Split(StripCaret(pm))), verOf(Split(StripCaret(pm))),
                  pm, onUnknown)

\* ------------------------------------------------------------ state
VARIABLES
  options,     \* the DetectOptions of the call
  env,         \* process.env.npm_config_user_agent
  processCwd,  \* process.cwd()
  files,       \* the filesystem: directory -> lock files and manifest
  mode,        \* "none", "sync" (detectSync), "async" (detect), "parse"
  pc,          \* "idle", "lockStat", "manifestStat" (suspended), "done"
  directory,   \* the walker's current directory
  lockIdx,     \* index into LOCKS of the lock file being probed
  result,      \* the value the call returned
  ioLog,       \* filesystem operations issued, in order
  walked,      \* whether the call asked lookup(cwd) for directories
  calls        \* arguments onUnknown was called with, in order

vars == <<options, env, processCwd, files, mode, pc, directory, lockIdx,
          result, ioLog, walked, calls>>

\* ------------------------------------------------------------ paths
\* an absolute path is the sequence of its segments; the root is <<>>
Root == <<>>
SegNames == <<"a", "b", "c", "d", "e">>
DeepDir == SubSeq(SegNames, 1, MaxDepth)
Dirs == {SubSeq(DeepDir, 1, n) : n \in 0..MaxDepth}

\* path.dirname
dirname(d) == IF d = <<>> THEN <<>> ELSE SubSeq(d, 1, Len(d) - 1)

\* path normalisation: "." is dropped, ".." removes the segment before it
RECURSIVE Normalize(_, _)
Normalize(acc, segs) ==
  IF segs = <<>> THEN acc
  ELSE IF Head(segs) = "." THEN Normalize(acc, Tail(segs))
  ELSE IF Head(segs) = ".." THEN Normalize(dirname(acc), Tail(segs))
  ELSE Normalize(Append(acc, Head(segs)), Tail(segs))

\* path.resolve(cwd) with cwd defaulting to process.cwd()
resolve(cwd, pcwd) ==
  IF ~cwd.given THEN pcwd
  ELSE IF cwd.abs THEN Normalize(<<>>, cwd.segs)
  ELSE Normalize(pcwd, cwd.segs)

\* the loop condition of lookup: directory && directory !== root
lookupContinues(d) == d # Root

\* ------------------------------------------------------------ filesystem
NoFiles == [locks |-> {}, manifest |-> [kind |-> "missing", pm |-> <<>>]]
Entry(fs, d) == IF d \in DOMAIN fs THEN fs[d] ELSE NoFiles

StatOp(d, f, s) == [op |-> "stat", dir |-> d, file |-> f, susp |-> s]
ReadOp(d, f, s) == [op |-> "read", dir |-> d, file |-> f, susp |-> s]

\* fileExists / fileExistsSync on a lock file: stat succeeded and isFile()
lockExistsNever(fs, d, i) == FALSE
lockExists(fs, d, i) == LOCKS[i][1] \in Entry(fs, d).locks

\* fileExists / fileExistsSync on package.json
manifestExists(fs, d) == Entry(fs, d).manifest.kind \notin {"missing", "directory"}

\* a value standing for an exception leaving the call
Raised == [name |-> "raised", agent |-> "raised", version |-> NoKey]

WithLog(r, log) == [result |-> r.result, calls |-> r.calls, log |-> log]
PrependLog(log, r) == [r EXCEPT !.log = log \o @]

\* the body of the try block of handlePackageManager
tryBody(m, onUnknown) ==
  IF m.kind \in {"unreadable", "invalid", "jsonNull"} THEN Outcome(Raised, <<>>)
  ELSE IF m.kind = "string" THEN processUserAgent(m.pm, onUnknown)
  ELSE Outcome(Null, <<>>)

\* catch {} return null
catchAll(r) == IF r.result = Raised THEN Outcome(Null, <<>>) ELSE r

\* handlePackageManager: readFileSync + JSON.parse inside try/catch
handlePackageManagerNoCatch(fs, d, onUnknown) ==
  WithLog(tryBody(Entry(fs, d).manifest, onUnknown),
          <<ReadOp(d, "package.json", FALSE)>>)
handlePackageManager(fs, d, onUnknown) ==
  WithLog(catchAll(tryBody(Entry(fs, d).manifest, onUnknown)),
          <<ReadOp(d, "package.json", FALSE)>>)

\* parsePackageJsonSync
parsePackageJsonSync(fs, d, onUnknown) ==
  IF ~manifestExists(fs, d)
    THEN WithLog(Outcome(Null, <<>>), <<StatOp(d, "package.json", FALSE)>>)
    ELSE PrependLog(<<StatOp(d, "package.json", FALSE)>>,
                    handlePackageManager(fs, d, onUnknown))

\* ------------------------------------------------------------ detectSync
EnvOutcome(returned, r) ==
  [returned |-> returned, result |-> r.result, calls |-> r.calls]
\* if (result) return result
ReturnIfResult(r) == EnvOutcome(r.result # Null, r)

\* the environment fast path shared by detect and detectSync:
\* returned tells whether the call returns from it
envPhaseFallsThrough(opts, e) ==
  IF opts.npm_config_user_agent = "absent" \/ ~(e.set /\ e.val # <<>>)
    THEN EnvOutcome(opts.npm_config_user_agent = "true", Outcome(Null, <<>>))
  ELSE ReturnIfResult(processUserAgent(e.val,
         IF opts.npm_config_user_agent = "true" THEN opts.onUnknown ELSE "absent"))
envPhase(opts, e) ==
  IF opts.npm_config_user_agent = "absent"
    THEN EnvOutcome(FALSE, Outcome(Null, <<>>))
  ELSE IF opts.npm_config_user_agent = "true"
    THEN IF e.set /\ e.val # <<>>
           THEN EnvOutcome(TRUE, processUserAgent(e.val, opts.onUnknown))
           ELSE EnvOutcome(TRUE, Outcome(Null, <<>>))
  ELSE IF e.set /\ e.val # <<>>
    THEN ReturnIfResult(processUserAgent(e.val, "absent"))
  ELSE EnvOutcome(FALSE, Outcome(Null, <<>>))

Walk(r, d, log, cs) == [result |-> r, dir |-> d, log |-> log, calls |-> cs]
BareAgent(name) == [name |-> name, agent |-> name, version |-> NoKey]

\* a lock file exists: if (result) return result else return { name, agent: name }
lockDecisionIgnoresManifest(p, d, i) ==
  Walk(BareAgent(LOCKS[i][2]), d, <<StatOp(d, LOCKS[i][1], FALSE)>> \o p.log, p.calls)
lockDecision(p, d, i) ==
  Walk(IF p.result # Null THEN p.result ELSE BareAgent(LOCKS[i][2]),
       d, <<StatOp(d, LOCKS[i][1], FALSE)>> \o p.log, p.calls)

PrependWalk(log, cs, w) == [w EXCEPT !.log = log \o @, !.calls = cs \o @]

\* the body of detectSync's loop over lookup(cwd), from directory d and
\* lock index i on
RECURSIVE walkSync(_, _, _, _)
\* no lock file: if (result) return result, else the next directory
manifestDecisionStops(p, fs, opts, d) == Walk(p.result, d, p.log, p.calls)
manifestDecision(p, fs, opts, d) ==
  IF p.result # Null THEN Walk(p.result, d, p.log, p.calls)
  ELSE PrependWalk(p.log, p.calls, walkSync(fs, opts, dirname(d), 1))

walkSync(fs, opts, d, i) ==
  IF ~lookupContinues(d) THEN Walk(Null, d, <<>>, <<>>)
  ELSE IF i <= Len(LOCKS)
    THEN IF lockExists(fs, d, i)
           THEN lockDecision(parsePackageJsonSync(fs, d, opts.onUnknown), d, i)
           ELSE PrependWalk(<<StatOp(d, LOCKS[i][1], FALSE)>>, <<>>,
                            walkSync(fs, opts, d, i + 1))
  ELSE manifestDecision(parsePackageJsonSync(fs, d, opts.onUnknown), fs, opts, d)

Call(w, walkedFlag) ==
  [result |-> w.result, dir |-> w.dir, log |-> w.log, calls |-> w.calls,
   walked |-> walkedFlag]

afterEnv(ep, fs, opts, pcwd) ==
  IF ep.returned THEN Call(Walk(ep.result, Root, <<>>, ep.calls), FALSE)
  ELSE Call(PrependWalk(<<>>, ep.calls, walkSync(fs, opts, resolve(opts.cwd, pcwd), 1)),
            TRUE)

detectSync(fs, opts, e, pcwd) == afterEnv(envPhase(opts, e), fs, opts, pcwd)

\* ------------------------------------------------------------ detect
Finish(r, log, cs) ==
  /\ pc' = "done"
  /\ result' = r
  /\ ioLog' = ioLog \o log
  /\ calls' = calls \o cs

\* the for-of loop of detect asks lookup for directory d: either the walker
\* yields it and the first lock file's stat is awaited, or the walker is
\* exhausted and detect returns null
EnterDirectory(d, log, cs) ==
  /\ directory' = d
  /\ lockIdx' = 1
  /\ IF lookupContinues(d)
       THEN /\ pc' = "lockStat"
            /\ ioLog' = ioLog \o log \o <<StatOp(d, LOCKS[1][1], TRUE)>>
            /\ calls' = calls \o cs
            /\ UNCHANGED result
       ELSE Finish(Null, log, cs)

SyncReturns(r) ==
  /\ directory' = r.dir
  /\ walked' = r.walked
  /\ Finish(r.result, r.log, r.calls)

\* detectSync(options): the whole call blocks the thread
DetectSync ==
  /\ pc = "idle"
  /\ mode' = "sync"
  /\ SyncReturns(detectSync(files, options, env, processCwd))
  /\ UNCHANGED <<options, env, processCwd, files, lockIdx>>

AfterEnvAsync(ep) ==
  IF ep.returned
    THEN Finish(ep.result, <<>>, ep.calls) /\ UNCHANGED <<directory, lockIdx, walked>>
    ELSE EnterDirectory(resolve(options.cwd, processCwd), <<>>, ep.calls)
         /\ walked' = TRUE

\* detect(options) up to its first await
Detect ==
  /\ pc = "idle"
  /\ mode' = "async"
  /\ AfterEnvAsync(envPhase(options, env))
  /\ UNCHANGED <<options, env, processCwd, files>>

\* await fileExists(path.join(directory, lock)) completes
ResumeLockStat ==
  /\ pc = "lockStat"
  /\ IF lockExists(files, directory, lockIdx) \/ lockIdx = Len(LOCKS)
       THEN /\ pc' = "manifestStat"
            /\ lockIdx' = IF lockExists(files, directory, lockIdx)
                            THEN lockIdx ELSE Len(LOCKS) + 1
            /\ ioLog' = Append(ioLog, StatOp(directory, "package.json", TRUE))
       ELSE /\ pc' = "lockStat"
            /\ lockIdx' = lockIdx + 1
            /\ ioLog' = Append(ioLog, StatOp(directory, LOCKS[lockIdx + 1][1], TRUE))
  /\ UNCHANGED <<options, env, processCwd, files, mode, directory, result, walked, calls>>

\* what detect does with the result p of parsePackageJson
AfterManifest(p) ==
  IF p.result # Null
    THEN Finish(p.result, p.log, p.calls) /\ UNCHANGED <<directory, lockIdx>>
  ELSE IF lockIdx <= Len(LOCKS)
    THEN Finish(BareAgent(LOCKS[lockIdx][2]), p.log, p.calls)
         /\ UNCHANGED <<directory, lockIdx>>
  ELSE EnterDirectory(dirname(directory), p.log, p.calls)

\* await fileExists(filepath) of parsePackageJson completes; the rest of
\* parsePackageJson (handlePackageManager) runs without suspending
ResumeManifestStat ==
  /\ pc = "manifestStat"
  /\ AfterManifest(IF manifestExists(files, directory)
                     THEN handlePackageManager(files, directory, options.onUnknown)
                     ELSE WithLog(Outcome(Null, <<>>), <<>>))
  /\ UNCHANGED <<options, env, processCwd, files, mode, walked>>

Next == DetectSync \/ Detect \/ ResumeLockStat \/ ResumeManifestStat

\* ------------------------------------------------------------ inputs
Cwd(given, abs, segs) == [given |-> given, abs |-> abs, segs |-> segs]
NoStop == [kind |-> "absent", path |-> <<>>, on |-> {}]
StopPath(d) == [kind |-> "path", path |-> d, on |-> {}]
StopPredicate(S) == [kind |-> "predicate", path |-> <<>>, on |-> S]
DefaultStrategies == [given |-> FALSE, list |-> <<>>]
Strategies(l) == [given |-> TRUE, list |-> l]

Opts(cwd, cb, ua, st, sd) ==
  [cwd |-> cwd, onUnknown |-> cb, npm_config_user_agent |-> ua,
   strategies |-> st, stopDir |-> sd]

EnvUnset == [set |-> FALSE, val |-> <<>>]
EnvVal(v) == [set |-> TRUE, val |-> v]

NonRootDirs == Dirs \ {Root}
Manifest(kind, pm) == [kind |-> kind, pm |-> pm]
PmSamples ==
  { <<"yarn", "@", "7">>, <<"yarn", "@", "1">>, <<"pnpm", "@", "1">>,
    <<"npm">>, <<"^", "vlt", "@", "1">>, <<>> }
ManifestsAll ==
  {Manifest(k, <<>>) : k \in {"missing", "directory", "unreadable", "invalid",
                              "jsonNull", "noField", "nonString"}}
  \cup {Manifest("string", pm) : pm \in PmSamples}
\* no lock file, each one alone, each with its successor in LOCKS, all
LockSetsAll ==
  {{}, LockNames} \cup {{n} : n \in LockNames}
  \cup {{LOCKS[i][1], LOCKS[i + 1][1]} : i \in 1..(Len(LOCKS) - 1)}
RichContents == [locks : LockSetsAll, manifest : ManifestsAll]
SmallContents ==
  { NoFiles,
    [locks |-> {"yarn.lock"}, manifest |-> Manifest("missing", <<>>)],
    [locks |-> {}, manifest |-> Manifest("string", <<"pnpm", "@", "1">>)],
    [locks |-> {"package-lock.json"},
     manifest |-> Manifest("string", <<"^", "vlt", "@", "1">>)] }
TinyContents ==
  { NoFiles,
    [locks |-> {"yarn.lock"}, manifest |-> Manifest("string", <<"pnpm", "@", "1">>)] }

\* every kind of content in directory r, little in the others
FilesRichAt(r) ==
  { [d \in NonRootDirs |-> IF d = r THEN c ELSE g[d]] :
      c \in RichContents, g \in [NonRootDirs -> TinyContents] }
\* one lock file in directory r, a manifest with a packageManager field in
\* its parent, nothing elsewhere
FilesProximity(r) ==
  { [d \in NonRootDirs |->
       IF d = r THEN [locks |-> {n}, manifest |-> Manifest("missing", <<>>)]
       ELSE IF d = dirname(r) THEN [locks |-> {}, manifest |-> Manifest("string", pm)]
       ELSE NoFiles] :
      n \in LockNames, pm \in PmSamples }
FilesSmall == [NonRootDirs -> SmallContents]

CwdChoices ==
  {Cwd(FALSE, FALSE, <<>>), Cwd(TRUE, FALSE, <<"..">>), Cwd(TRUE, FALSE, <<".", "c">>)}
  \cup {Cwd(TRUE, TRUE, d) : d \in Dirs}
StopChoices == {NoStop, StopPath(<<"a">>), StopPredicate({<<"a", "b">>})}
StrategyChoices ==
  { DefaultStrategies, Strategies(<<"packageManager-field">>),
    Strategies(<<"packageManager-field", "lockfile">>) }
EnvChoices == {EnvUnset} \cup {EnvVal(v) : v \in PmSamples}

InitWith(F, O, E, P) ==
  /\ files \in F
  /\ options \in O
  /\ env \in E
  /\ processCwd \in P
  /\ mode = "none"
  /\ pc = "idle"
  /\ directory = Root
  /\ lockIdx = 1
  /\ result = Null
  /\ ioLog = <<>>
  /\ walked = FALSE
  /\ calls = <<>>

\* the calls considered: (1) every lock file set and manifest in the
\* starting directory; (2) a lock file in the starting directory and a
\* packageManager field in its parent; (3) every starting directory,
\* (4) every stopDir and strategies, over small directory contents;
\* (5) every environment hint
Init ==
  \/ InitWith(FilesRichAt(DeepDir) \cup FilesProximity(DeepDir),
              {Opts(Cwd(TRUE, TRUE, DeepDir), cb, "absent", DefaultStrategies, NoStop) :
                 cb \in Callbacks},
              {EnvUnset}, {DeepDir})
  \/ InitWith(FilesSmall,
              {Opts(c, cb, "absent", DefaultStrategies, NoStop) :
                 c \in CwdChoices, cb \in {"absent", "returnsResult"}},
              {EnvUnset}, {<<"a">>, <<"a", "b">>})
  \/ InitWith(FilesSmall,
              {Opts(Cwd(TRUE, TRUE, DeepDir), "returnsResult", "absent", st, sd) :
                 st \in StrategyChoices, sd \in StopChoices},
              {EnvUnset}, {DeepDir})
  \/ InitWith([NonRootDirs -> TinyContents],
              {Opts(Cwd(TRUE, TRUE, DeepDir), cb, ua, DefaultStrategies, NoStop) :
                 cb \in Callbacks, ua \in {"absent", "true", "other"}},
              EnvChoices, {DeepDir})

Spec == Init /\ [][Next]_vars

\* ------------------------------------------------ parser specification
Tokens == {"^", "@", "yarn", "pnpm", "npm", "0", "1", "7", "x"}
Specifiers == UNION {[1..n -> Tokens] : n \in 0..MaxLen}

InitParse ==
  InitWith({[d \in NonRootDirs |-> NoFiles]},
           {Opts(Cwd(FALSE, FALSE, <<>>), cb, "absent", DefaultStrategies, NoStop) :
              cb \in Callbacks},
           {EnvVal(v) : v \in Specifiers}, {Root})

\* processUserAgent(env.val, options.onUnknown) called on its own
Parse ==
  /\ pc = "idle"
  /\ mode' = "parse"
  /\ Finish(processUserAgent(env.val, options.onUnknown).result, <<>>,
            processUserAgent(env.val, options.onUnknown).calls)
  /\ UNCHANGED <<options, env, processCwd, files, directory, lockIdx, walked>>

SpecParse == InitParse /\ [][Parse]_vars

\* ------------------------------------------------------------ claims
Start == resolve(options.cwd, processCwd)
IsPrefix(a, b) == Len(a) <= Len(b) /\ SubSeq(b, 1, Len(a)) = a
\* the directories from the starting directory up to the root
Ancestry == {SubSeq(Start, 1, n) : n \in 0..Len(Start)}
Done == pc = "done"
LogIdx == 1..Len(ioLog)

\* the signal of the manifest of directory d: its packageManager string,
\* parsed; null when it is not there as a string
ManifestSignal(d) ==
  IF Entry(files, d).manifest.kind = "string"
    THEN processUserAgent(Entry(files, d).manifest.pm, options.onUnknown).result
    ELSE Null
FirstLock(d) ==
  CHOOSE i \in 1..Len(LOCKS) :
    /\ LOCKS[i][1] \in Entry(files, d).locks
    /\ \A j \in 1..(i - 1) : LOCKS[j][1] \notin Entry(files, d).locks
Yields(d) == Entry(files, d).locks # {} \/ ManifestSignal(d) # Null

\* --- C1
StrategyList ==
  IF options.strategies.given THEN options.strategies.list
  ELSE <<"lockfile", "packageManager-field", "devEngines-field">>
Position(st) ==
  IF \E i \in 1..Len(StrategyList) : StrategyList[i] = st
    THEN CHOOSE i \in 1..Len(StrategyList) : StrategyList[i] = st
    ELSE 0

\* C1: the strategies run in the order of options.strategies and a strategy
\* that is not listed is never evaluated: without "lockfile" no lock file is
\* probed and no bare lock-file result is returned, and with
\* "packageManager-field" listed before "lockfile" a directory's manifest is
\* probed before its lock files
C1_StrategiesHonoured ==
  /\ Position("lockfile") = 0 =>
       /\ \A k \in LogIdx : ioLog[k].file \notin LockNames
       /\ Done /\ result # Null => result.version # NoKey
  /\ (0 < Position("packageManager-field")
      /\ Position("packageManager-field") < Position("lockfile")) =>
       \A k \in LogIdx : ioLog[k].file \in LockNames =>
         \E j \in 1..(k - 1) :
           ioLog[j].dir = ioLog[k].dir /\ ioLog[j].file = "package.json"

\* --- C2
Stops(d) ==
  \/ options.stopDir.kind = "path" /\ d = options.stopDir.path
  \/ options.stopDir.kind = "predicate" /\ d \in options.stopDir.on

\* C2: no filesystem probe is issued in a directory that satisfies the stop
\* condition, nor in any ancestor of such a directory
C2_StopDirNeverInspected ==
  \A k \in LogIdx : \A e \in Ancestry : Stops(e) => ~IsPrefix(ioLog[k].dir, e)

\* --- C3
\* C3: probes start in the resolved cwd and go child before parent; no probe
\* is issued in a strict ancestor of a directory that yields a result; a
\* call that ends with a result ends in the directory of its last probe; and
\* a lock file alone in the starting directory decides the result whatever
\* the parent directories hold
C3_Proximity ==
  /\ ioLog # <<>> => ioLog[1].dir = Start
  /\ \A j, k \in LogIdx : j < k => IsPrefix(ioLog[k].dir, ioLog[j].dir)
  /\ \A k \in LogIdx : \A e \in Ancestry :
       Yields(e) /\ e # ioLog[k].dir => ~IsPrefix(ioLog[k].dir, e)
  /\ Done /\ walked /\ result # Null => ioLog[Len(ioLog)].dir = directory
  /\ (Done /\ walked /\ Entry(files, Start).locks # {}
      /\ Entry(files, Start).manifest.kind = "missing") =>
       result = BareAgent(LOCKS[FirstLock(Start)][2])

C3_Witness ==
  /\ Done /\ mode = "async" /\ Len(Start) >= 2
  /\ Entry(files, Start) =
       [locks |-> {"yarn.lock"}, manifest |-> Manifest("missing", <<>>)]
  /\ Entry(files, dirname(Start)) =
       [locks |-> {}, manifest |-> Manifest("string", <<"pnpm", "@", "1">>)]
  /\ result = BareAgent("yarn")
  /\ \A k \in LogIdx : ioLog[k].dir = Start

\* --- C4
LockStats(d) ==
  SelectSeq(ioLog, LAMBDA o : o.dir = d /\ o.op = "stat" /\ o.file \in LockNames)

\* C4: in the directory where a call ends on a lock file, the lock files
\* were probed in LOCKS order up to the first existing one, and the result
\* is the manifest's when it has one, else the lock file's bare agent
C4_Lockfile ==
  (Done /\ walked /\ Entry(files, directory).locks # {}) =>
    /\ Len(LockStats(directory)) = FirstLock(directory)
    /\ \A k \in 1..FirstLock(directory) : LockStats(directory)[k].file = LOCKS[k][1]
    /\ result = IF ManifestSignal(directory) # Null
                  THEN ManifestSignal(directory)
                  ELSE BareAgent(LOCKS[FirstLock(directory)][2])

C4_Witness ==
  /\ Done /\ mode = "async"
  /\ Entry(files, directory) =
       [locks |-> {"package-lock.json", "npm-shrinkwrap.json"},
        manifest |-> Manifest("string", <<"yarn", "@", "7">>)]
  /\ result = [name |-> "yarn", agent |-> "yarn@berry", version |-> Str(<<"berry">>)]

\* --- C5
\* the text of s before its first "@"
RECURSIVE BeforeAt(_)
BeforeAt(s) ==
  IF s = <<>> \/ Head(s) = "@" THEN <<>> ELSE <<Head(s)>> \o BeforeAt(Tail(s))
HasAt(s) == \E i \in 1..Len(s) : s[i] = "@"
\* everything after the first "@" of s
AfterAt(s) == SubSeq(s, Len(BeforeAt(s)) + 2, Len(s))

\* the decision order of the reference: berry-yarn, legacy-pnpm, known
\* agent, unknown handler
Reference(name, version, pm, cb) ==
  CASE name = <<"yarn">> /\ (\E n \in ParseInt(version) : n > 1) ->
         [name |-> "yarn", agent |-> "yarn@berry", version |-> Str(<<"berry">>)]
    [] name = <<"pnpm">> /\ (\E n \in ParseInt(version) : n < 7) ->
         [name |-> "pnpm", agent |-> "pnpm@6", version |-> version]
    [] OTHER ->
         IF \E a \in AGENTS : name = <<a>>
           THEN [name |-> name[1], agent |-> name[1], version |-> version]
           ELSE IF cb = "returnsResult" THEN FixedResult ELSE Null

\* C5 as stated: the version is everything after the first "@", and every
\* specifier, the empty one included, goes through the four rules
C5_ParserAsStated ==
  (Done /\ mode = "parse") =>
    result = Reference(BeforeAt(StripCaret(env.val)),
                       IF HasAt(StripCaret(env.val))
                         THEN Str(AfterAt(StripCaret(env.val))) ELSE Undef,
                       env.val, options.onUnknown)

\* C5 amended: the empty specifier gives null without the unknown handler,
\* and the version is the text between the first "@" and the second (or the
\* end); the rest as stated
C5_ParserAmended ==
  (Done /\ mode = "parse") =>
    result = IF env.val = <<>> THEN Null
             ELSE Reference(BeforeAt(StripCaret(env.val)),
                            IF HasAt(StripCaret(env.val))
                              THEN Str(BeforeAt(AfterAt(StripCaret(env.val))))
                              ELSE Undef,
                            env.val, options.onUnknown)

C5_Witness ==
  /\ Done /\ mode = "parse"
  /\ env.val = <<"pnpm", "@", "1", "@">>
  /\ result = [name |-> "pnpm", agent |-> "pnpm@6", version |-> Str(<<"1">>)]

\* --- C6
UnknownName(pm) == ~\E a \in AGENTS : BeforeAt(StripCaret(pm)) = <<a>>
EnvRead ==
  options.npm_config_user_agent # "absent" /\ env.set /\ env.val # <<>>
ManifestPm(d) == Entry(files, d).manifest.pm
ReadsUnknown(o) ==
  /\ o.op = "read"
  /\ Entry(files, o.dir).manifest.kind = "string"
  /\ UnknownName(ManifestPm(o.dir))
InCalls(pm) == \E k \in 1..Len(calls) : calls[k] = pm

\* C6 as stated: every (non-empty) unknown specifier read, from a manifest
\* or from the environment, is passed unchanged to the supplied onUnknown,
\* whose result is the outcome of that signal
C6_UnknownAsStated ==
  (Done /\ options.onUnknown # "absent") =>
    /\ (EnvRead /\ UnknownName(env.val)) =>
         /\ calls = <<env.val>>
         /\ result = CallUnknown(options.onUnknown, env.val)
    /\ \A k \in LogIdx :
         ReadsUnknown(ioLog[k]) /\ ManifestPm(ioLog[k].dir) # <<>> =>
           InCalls(ManifestPm(ioLog[k].dir))

\* the onUnknown calls that the manifest reads of a log give rise to
RECURSIVE ManifestCalls(_)
ManifestCalls(log) ==
  IF log = <<>> THEN <<>>
  ELSE (IF ReadsUnknown(Head(log)) /\ ManifestPm(Head(log).dir) # <<>>
             /\ options.onUnknown # "absent"
          THEN <<ManifestPm(Head(log).dir)>> ELSE <<>>)
       \o ManifestCalls(Tail(log))
EnvCalls ==
  IF EnvRead /\ options.npm_config_user_agent = "true" /\ UnknownName(env.val)
       /\ options.onUnknown # "absent"
    THEN <<env.val>> ELSE <<>>

\* C6 amended: onUnknown is called, with the raw specifier, exactly for the
\* non-empty unknown specifiers of the manifests read and of the environment
\* when npm_config_user_agent is true (never when it is another truthy
\* value); for the environment its result is what detect returns, for a
\* manifest a DetectResult it returns is what detect returns; and detect
\* returns the callback's DetectResult only if the callback was called
C6_UnknownAmended ==
  Done =>
    /\ calls = EnvCalls \o ManifestCalls(ioLog)
    /\ (EnvRead /\ options.npm_config_user_agent = "true" /\ UnknownName(env.val)) =>
         result = CallUnknown(options.onUnknown, env.val)
    /\ (ioLog # <<>> /\ ReadsUnknown(ioLog[Len(ioLog)])
        /\ ManifestPm(ioLog[Len(ioLog)].dir) # <<>>
        /\ options.onUnknown = "returnsResult") => result = FixedResult
    /\ result = FixedResult => options.onUnknown = "returnsResult" /\ calls # <<>>

C6_Witness ==
  /\ Done /\ mode = "async" /\ ioLog # <<>>
  /\ calls = << <<"^", "vlt", "@", "1">> >>
  /\ result = FixedResult

\* --- C7
Bare(log) == [k \in 1..Len(log) |-> [op |-> log[k].op, dir |-> log[k].dir,
                                      file |-> log[k].file]]
SameAsSync(r) ==
  /\ result = r.result
  /\ calls = r.calls
  /\ Bare(ioLog) = Bare(r.log)

\* C7: a finished detect has returned what detectSync returns for the same
\* options, environment and filesystem, after the same filesystem
\* operations and onUnknown calls
C7_SyncAsyncAgree ==
  (Done /\ mode = "async") => SameAsSync(detectSync(files, options, env, processCwd))

C7_Witness ==
  /\ Done /\ mode = "async" /\ result # Null
  /\ Len(ioLog) > Len(LOCKS) + 2
  /\ ioLog[Len(ioLog)].op = "read"

\* --- C8
NoSignalKinds == {"directory", "unreadable", "invalid", "jsonNull", "noField", "nonString"}
\* the filesystem with every manifest that carries no signal removed
Scrub(fs) ==
  [d \in DOMAIN fs |->
     IF fs[d].manifest.kind \in NoSignalKinds
       THEN [fs[d] EXCEPT !.manifest = Manifest("missing", <<>>)]
       ELSE fs[d]]

\* C8: no call raises, and a call returns what detectSync returns when the
\* manifests that are unreadable, malformed or without a packageManager
\* string are missing altogether
C8_ManifestNeverRaises ==
  /\ result # Raised
  /\ Done /\ mode # "parse" =>
       result = detectSync(Scrub(files), options, env, processCwd).result

C8_Witness ==
  /\ Done /\ mode = "async"
  /\ Entry(files, Start) = [locks |-> {}, manifest |-> Manifest("invalid", <<>>)]
  /\ \E k \in LogIdx : ioLog[k].op = "read" /\ ioLog[k].dir = Start
  /\ directory = dirname(Start)
  /\ result = [name |-> "pnpm", agent |-> "pnpm@6", version |-> Str(<<"1">>)]

\* --- C9
Requested == options.npm_config_user_agent # "absent"
EnvAvailable == env.set /\ env.val # <<>>

\* C9 as stated: with the fast path requested, the directories are walked
\* if and only if there is an environment value and it parses to null
C9_FastPathAsStated ==
  (Done /\ mode # "parse" /\ Requested) =>
    /\ walked <=>
         (EnvAvailable /\ processUserAgent(env.val, options.onUnknown).result = Null)
    /\ ~EnvAvailable => result = Null
    /\ ~walked /\ EnvAvailable =>
         result = processUserAgent(env.val, options.onUnknown).result

\* C9 amended: with npm_config_user_agent true the directories are never
\* walked and the result is null without an environment value, else the
\* parse (with onUnknown) of the value; with another truthy value they are
\* walked if and only if there is no environment value or it parses, without
\* onUnknown, to null, and otherwise that parse is the result
C9_FastPathAmended ==
  (Done /\ mode # "parse" /\ Requested) =>
    IF options.npm_config_user_agent = "true"
      THEN /\ ~walked
           /\ ioLog = <<>>
           /\ result = IF EnvAvailable
                         THEN processUserAgent(env.val, options.onUnknown).result
                         ELSE Null
      ELSE /\ walked <=>
                (~EnvAvailable \/ processUserAgent(env.val, "absent").result = Null)
           /\ ~walked => /\ ioLog = <<>>
                         /\ result = processUserAgent(env.val, "absent").result

C9_Witness ==
  /\ Done /\ mode = "async"
  /\ options.npm_config_user_agent = "true"
  /\ options.onUnknown = "returnsNull"
  /\ env = EnvVal(<<"^", "vlt", "@", "1">>)
  /\ ~walked /\ result = Null
  /\ Yields(Start)

\* --- C10
\* C10: in detect every filesystem operation, the manifest reads included,
\* is issued as a suspending operation
C10_EveryOperationSuspends ==
  mode = "async" => \A k \in LogIdx : ioLog[k].susp

====
